---- MODULE Spec2Model ----
(***************************************************************************)
(* Model of the designer profile / portfolio editor                        *)
(* (src/src/pages/Potfolio.tsx): the two remote query results, the local   *)
(* form states, the edit-mode flags, the form handlers, the two async save *)
(* functions with the mutation in flight, and the emptiness predicates.    *)
(*                                                                         *)
(* A string is a sequence of one-character strings, so that trim() and     *)
(* toLowerCase() are computed and not assumed.  An optional value          *)
(* (undefined / null / a value) is a sequence of length 0 or 1.            *)
(***************************************************************************)
EXTENDS Integers, Sequences, FiniteSets, TLC

\* ---------------------------------------------------------------- strings

Whitespace == {" "}

RECURSIVE TrimStart(_)
TrimStart(s) ==
    IF s = <<>> THEN <<>>
    ELSE IF Head(s) \in Whitespace THEN TrimStart(Tail(s)) ELSE s

RECURSIVE TrimEnd(_)
TrimEnd(s) ==
    IF s = <<>> THEN <<>>
    ELSE IF s[Len(s)] \in Whitespace THEN TrimEnd(SubSeq(s, 1, Len(s) - 1)) ELSE s

\* String.prototype.trim
Trim(s) == TrimEnd(TrimStart(s))

LowerChar(c) ==
    CASE c = "A" -> "a"
      [] c = "N" -> "n"
      [] c = "X" -> "x"
      [] OTHER -> c

\* String.prototype.toLowerCase
ToLowerCase(s) == [i \in 1..Len(s) |-> LowerChar(s[i])]

\* JavaScript truthiness of a string: "" is falsy
Truthy(s) == s # <<>>

\* ---------------------------------------------------------------- options

None == <<>>
Some(x) == <<x>>
IsSome(o) == o # <<>>
Get(o) == o[1]

\* o ?? d
OrElse(o, d) == IF IsSome(o) THEN Get(o) ELSE d

\* !o for an optional string: undefined or ""
FalsyStr(o) == ~IsSome(o) \/ ~Truthy(Get(o))

\* ---------------------------------------------------------------- sequences

Range(s) == {s[i] : i \in 1..Len(s)}

\* Array.prototype.includes
Includes(s, x) == \E i \in 1..Len(s) : s[i] = x

\* Array.prototype.filter on the elements
RECURSIVE FilterNe(_, _)
FilterNe(s, x) ==
    IF s = <<>> THEN <<>>
    ELSE IF Head(s) # x THEN <<Head(s)>> \o FilterNe(Tail(s), x)
         ELSE FilterNe(Tail(s), x)

\* mutant: the index taken as counted from 1
FilterIdxFromOne(s, index, i) ==
    IF index \in 1..Len(s)
    THEN SubSeq(s, 1, index - 1) \o SubSeq(s, index + 1, Len(s))
    ELSE s

\* Array.prototype.filter((_, i) => i !== index), index counted from 0
RECURSIVE FilterIdx(_, _, _)
FilterIdx(s, index, i) ==
    IF s = <<>> THEN <<>>
    ELSE IF i # index THEN <<Head(s)>> \o FilterIdx(Tail(s), index, i + 1)
         ELSE FilterIdx(Tail(s), index, i + 1)

\* ---------------------------------------------------------------- bounds

\* mutation calls of one kind that may be in flight at once
MaxCalls == 1
\* longest social_links list the form is edited to
MaxLinks == 2
\* longest skills list the form is edited to
MaxSkills == 2
\* documents inserted into the tables of the schema in one session
MaxRows == 2

\* ---------------------------------------------------------------- values

S(c) == <<c>>
EmptyStr == <<>>
Blank == <<" ">>
NA == <<"n", "a">>

DesignerId == "d1"
PortfolioId == "p1"

\* DesignerRecord (user_id and portfolio_id are never read by the page)
Designer(c, a) == [_id |-> DesignerId, contact_number |-> c, address |-> a]

\* PortfolioRecord
PortfolioRec(t, d, sp, sk, sl) ==
    [_id |-> PortfolioId, title |-> t, description |-> d, specialization |-> sp,
     skills |-> sk, social_links |-> sl]

Link(p, u) == [platform |-> p, url |-> u]

\* ---------------------------------------------------------------- state

VARIABLES
    dbDesigner,       \* the designers row in the remote store (optional)
    dbPortfolio,      \* the designer's portfolios rows in the remote store
    designerProfile,  \* useQuery(api.designers.getByUser) as last delivered
    portfolio,        \* useQuery(api.portfolio.getPortfoliosByDesigner) as last delivered
    designerForm,
    portfolioForm,
    newSkill,
    newSocial,
    editContact,
    editPortfolio,
    designerCalls,    \* updateDesigner calls awaited by saveContactInfo
    portfolioCalls,   \* updatePortfolio calls awaited by savePortfolio
    alert,            \* the alert() shown by the step just taken, or "none"
    unhandled,        \* the step just taken ended in an unhandled promise rejection
    last,             \* the operation the step just taken ran, with its argument
    scenario,         \* the part of the page this session exercises
    rows,             \* the documents each table of the schema holds
    write             \* the insert the step just taken asked for, and its outcome

vars ==
    <<dbDesigner, dbPortfolio, designerProfile, portfolio, designerForm,
      portfolioForm, newSkill, newSocial, editContact, editPortfolio,
      designerCalls, portfolioCalls, alert, unhandled, last, scenario,
      rows, write>>

schemaVars == <<rows, write>>
contactVars == <<dbDesigner, designerProfile, designerForm, editContact, designerCalls>>
portfolioVars ==
    <<dbPortfolio, portfolioForm, newSkill, newSocial, editPortfolio, portfolioCalls>>

\* const currentPortfolio = portfolio?.[0] ?? null
currentPortfolio == IF Len(portfolio) > 0 THEN Some(portfolio[1]) ELSE None

Op(name) == [op |-> name, index |-> -1, str |-> EmptyStr]
OpIdx(name, i) == [op |-> name, index |-> i, str |-> EmptyStr]
OpStr(name, s) == [op |-> name, index |-> -1, str |-> s]

\* a step that shows no alert and leaves no rejection unhandled
Quiet == alert' = "none" /\ unhandled' = FALSE

RemoveAt(s, i) == SubSeq(s, 1, i - 1) \o SubSeq(s, i + 1, Len(s))

\* ---------------------------------------------------------------- schema
\* convex/schema.ts as embedded in src/src/pages/client/ProjectsSection.tsx: the
\* fields declared v.union(v.literal(...), ...).  An enumerated value is a plain
\* string here: no operation of the program cuts or folds it.

RoleLiterals == {"client", "designer", "admin"}
RecipientTypeLiterals == {"admin", "designer", "client"}
ShirtTypeLiterals == {"jersey", "polo", "tshirt", "long sleeves"}
ShirtCategoryLiterals == {"kids", "adult"}
RequestStatusLiterals == {"pending", "approved", "rejected"}
DesignStatusLiterals == {"in_progress", "finished", "billed", "approved"}
CanvasCategoryLiterals ==
    {"front", "back", "left_sleeve", "right_sleeve", "collar", "other"}

\* per table, the enumerated fields and the literals each is declared with
Schema ==
    [users |-> [role |-> RoleLiterals],
     notifications |-> [recipient_user_type |-> RecipientTypeLiterals],
     shirt_sizes |-> [type |-> ShirtTypeLiterals, category |-> ShirtCategoryLiterals],
     design_requests |-> [status |-> RequestStatusLiterals],
     design |-> [status |-> DesignStatusLiterals],
     fabric_canvases |-> [category |-> CanvasCategoryLiterals]]

Tables == DOMAIN Schema

\* a validator that lets every string through, as v.string() does
ValidatesAnyString(literals, value) == TRUE

\* v.union(v.literal(l1), ..., v.literal(ln)) applied to a value: the value has
\* to be identical to one of the literals
Validates(literals, value) == value \in literals

\* the table's object validator: every enumerated field passes its own validator
ValidDocument(t, doc) ==
    \A f \in DOMAIN Schema[t] : Validates(Schema[t][f], doc[f])

EmptyTables == [t \in Tables |-> {}]
NoWrite == [table |-> "none", doc |-> [f \in {} |-> ""], accepted |-> FALSE]

\* every stored document, with the table it is in
StoredRows == UNION {{<<t, doc>> : doc \in rows[t]} : t \in Tables}

\* ctx.db.insert(t, doc): the document is written when it passes the table's
\* validator, and the write is refused otherwise
Insert(t, doc) ==
    /\ write' = [table |-> t, doc |-> doc, accepted |-> ValidDocument(t, doc)]
    /\ rows' = IF ValidDocument(t, doc)
                THEN [rows EXCEPT ![t] = @ \cup {doc}]
                ELSE rows
    /\ last' = Op("insert")
    /\ UNCHANGED <<scenario, contactVars, portfolio, portfolioVars, alert, unhandled>>

\* ---------------------------------------------------------------- initial state

EmptyDesignerForm == [contact_number |-> EmptyStr, address |-> EmptyStr]
EmptyPortfolioForm ==
    [title |-> EmptyStr, description |-> EmptyStr, specialization |-> EmptyStr,
     skills |-> <<>>, social_links |-> <<>>]
EmptySocial == [platform |-> EmptyStr, url |-> EmptyStr]

\* the component as mounted: both queries still loading, the useState defaults
Mounted ==
    /\ designerProfile = None
    /\ portfolio = <<>>
    /\ designerForm = EmptyDesignerForm
    /\ portfolioForm = EmptyPortfolioForm
    /\ newSkill = EmptyStr
    /\ newSocial = EmptySocial
    /\ editContact = FALSE
    /\ editPortfolio = FALSE
    /\ designerCalls = <<>>
    /\ portfolioCalls = <<>>
    /\ alert = "none"
    /\ unhandled = FALSE
    /\ last = Op("mount")
    /\ rows = EmptyTables
    /\ write = NoWrite

\* ---------------------------------------------------------------- contact section

\* useEffect(..., [designerProfile]) run on the delivered value
SeedDesignerForm(profile, form) ==
    IF IsSome(profile)
    THEN [contact_number |-> OrElse(Get(profile).contact_number, EmptyStr),
          address |-> OrElse(Get(profile).address, EmptyStr)]
    ELSE form

\* the designers.getByUser subscription delivers the row as it now is; the
\* portfolio query is skipped (undefined) while there is no designerProfile._id
DeliverDesigner ==
    /\ designerProfile # dbDesigner
    /\ designerProfile' = dbDesigner
    /\ designerForm' = SeedDesignerForm(dbDesigner, designerForm)
    /\ portfolio' = IF IsSome(dbDesigner) THEN portfolio ELSE <<>>
    /\ last' = Op("deliverDesigner")
    /\ Quiet
    /\ UNCHANGED <<dbDesigner, editContact, designerCalls, portfolioVars, scenario, schemaVars>>

\* the two "Set up your Contact Information" / "Edit" buttons
EnterEditContact ==
    /\ ~editContact
    /\ editContact' = TRUE
    /\ last' = Op("editContact")
    /\ Quiet
    /\ UNCHANGED <<dbDesigner, designerProfile, designerForm, designerCalls,
                   portfolio, portfolioVars, scenario, schemaVars>>

\* the contact section's Cancel button
CancelContact ==
    /\ editContact
    /\ editContact' = FALSE
    /\ last' = Op("cancelContact")
    /\ Quiet
    /\ UNCHANGED <<dbDesigner, designerProfile, designerForm, designerCalls,
                   portfolio, portfolioVars, scenario, schemaVars>>

\* onChange of the "Contact Number" input
SetContactNumber(v) ==
    /\ editContact
    /\ designerForm' = [designerForm EXCEPT !.contact_number = v]
    /\ last' = Op("input")
    /\ Quiet
    /\ UNCHANGED <<dbDesigner, designerProfile, editContact, designerCalls,
                   portfolio, portfolioVars, scenario, schemaVars>>

\* mutant: the address input saves on every change
SetAddressAutosaves(v) ==
    /\ editContact
    /\ designerForm' = [designerForm EXCEPT !.address = v]
    /\ designerCalls' =
         IF IsSome(designerProfile) /\ Len(designerCalls) < MaxCalls
         THEN Append(designerCalls,
                     [designerId |-> Get(designerProfile)._id,
                      contact_number |-> designerForm.contact_number,
                      address |-> v,
                      state |-> "pending"])
         ELSE designerCalls
    /\ last' = Op("input")
    /\ Quiet
    /\ UNCHANGED <<dbDesigner, designerProfile, editContact,
                   portfolio, portfolioVars, scenario, schemaVars>>

\* onChange of the "Address" input
SetAddress(v) ==
    /\ editContact
    /\ designerForm' = [designerForm EXCEPT !.address = v]
    /\ last' = Op("input")
    /\ Quiet
    /\ UNCHANGED <<dbDesigner, designerProfile, editContact, designerCalls,
                   portfolio, portfolioVars, scenario, schemaVars>>

\* mutant: saveContactInfo also refuses an empty contact number
ContactGuardValidates == IsSome(designerProfile) /\ Truthy(designerForm.contact_number)

\* saveContactInfo's early return: if (!designerProfile?._id) return
ContactGuard == IsSome(designerProfile)

\* saveContactInfo up to its await: the Save button of the contact section
SaveContactInfo ==
    /\ editContact
    /\ Len(designerCalls) < MaxCalls
    /\ designerCalls' =
         IF ContactGuard
         THEN Append(designerCalls,
                     [designerId |-> Get(designerProfile)._id,
                      contact_number |-> designerForm.contact_number,
                      address |-> designerForm.address,
                      state |-> "pending"])
         ELSE designerCalls
    /\ last' = Op("saveContactInfo")
    /\ Quiet
    /\ UNCHANGED <<dbDesigner, designerProfile, designerForm, editContact,
                   portfolio, portfolioVars, scenario, schemaVars>>

\* api.designers.updateProfile commits on the server
ApplyDesigner(i) ==
    /\ designerCalls[i].state = "pending"
    /\ IsSome(dbDesigner)
    /\ Get(dbDesigner)._id = designerCalls[i].designerId
    /\ dbDesigner' = Some([Get(dbDesigner) EXCEPT
                             !.contact_number = Some(designerCalls[i].contact_number),
                             !.address = Some(designerCalls[i].address)])
    /\ designerCalls' = [designerCalls EXCEPT ![i].state = "applied"]
    /\ last' = Op("applyDesigner")
    /\ Quiet
    /\ UNCHANGED <<designerProfile, designerForm, editContact, portfolio, portfolioVars, scenario, schemaVars>>

\* the awaited updateDesigner promise resolves: the rest of saveContactInfo
ResolveDesigner(i) ==
    /\ designerCalls[i].state = "applied"
    /\ designerCalls' = RemoveAt(designerCalls, i)
    /\ editContact' = FALSE
    /\ alert' = "Contact info updated"
    /\ unhandled' = FALSE
    /\ last' = Op("resolveDesigner")
    /\ UNCHANGED <<dbDesigner, designerProfile, designerForm, portfolio, portfolioVars, scenario, schemaVars>>

\* the awaited updateDesigner promise rejects: saveContactInfo has no catch
RejectDesigner(i) ==
    /\ designerCalls[i].state = "pending"
    /\ designerCalls' = RemoveAt(designerCalls, i)
    /\ alert' = "none"
    /\ unhandled' = TRUE
    /\ last' = Op("rejectDesigner")
    /\ UNCHANGED <<dbDesigner, designerProfile, designerForm, editContact,
                   portfolio, portfolioVars, scenario, schemaVars>>

\* another writer changes or deletes the designers row
ExternalDesigner(r) ==
    /\ r # dbDesigner
    /\ dbDesigner' = r
    /\ last' = Op("externalDesigner")
    /\ Quiet
    /\ UNCHANGED <<designerProfile, designerForm, editContact, designerCalls,
                   portfolio, portfolioVars, scenario, schemaVars>>

\* ---------------------------------------------------------------- portfolio section

\* useEffect(..., [currentPortfolio]) run on the delivered value
SeedPortfolioForm(cur, form) ==
    IF IsSome(cur)
    THEN [title |-> OrElse(Get(cur).title, EmptyStr),
          description |-> OrElse(Get(cur).description, EmptyStr),
          specialization |-> OrElse(Get(cur).specialization, EmptyStr),
          skills |-> OrElse(Get(cur).skills, <<>>),
          social_links |-> OrElse(Get(cur).social_links, <<>>)]
    ELSE form

\* a delivery that spares the form of an open edit session
DeliverPortfolioKeepsEdits ==
    /\ IsSome(designerProfile)
    /\ portfolio # dbPortfolio
    /\ portfolio' = dbPortfolio
    /\ portfolioForm' = IF editPortfolio
                        THEN portfolioForm
                        ELSE SeedPortfolioForm(dbPortfolio, portfolioForm)
    /\ last' = Op("deliverPortfolio")
    /\ Quiet
    /\ UNCHANGED <<schemaVars, scenario, contactVars, dbPortfolio, newSkill, newSocial,
                   editPortfolio, portfolioCalls>>

\* the portfolio.getPortfoliosByDesigner subscription delivers the rows as they
\* now are; it runs only while designerProfile._id is there
DeliverPortfolio ==
    /\ IsSome(designerProfile)
    /\ portfolio # dbPortfolio
    /\ portfolio' = dbPortfolio
    /\ portfolioForm' = SeedPortfolioForm(dbPortfolio, portfolioForm)
    /\ last' = Op("deliverPortfolio")
    /\ Quiet
    /\ UNCHANGED <<schemaVars, scenario, contactVars, dbPortfolio, newSkill, newSocial, editPortfolio,
                   portfolioCalls>>

\* the two "Set up your Portfolio" / "Edit" buttons
EnterEditPortfolio ==
    /\ ~editPortfolio
    /\ editPortfolio' = TRUE
    /\ last' = Op("editPortfolio")
    /\ Quiet
    /\ UNCHANGED <<schemaVars, scenario, contactVars, portfolio, dbPortfolio, portfolioForm, newSkill,
                   newSocial, portfolioCalls>>

\* the portfolio section's Cancel button
CancelPortfolio ==
    /\ editPortfolio
    /\ editPortfolio' = FALSE
    /\ last' = Op("cancelPortfolio")
    /\ Quiet
    /\ UNCHANGED <<schemaVars, scenario, contactVars, portfolio, dbPortfolio, portfolioForm, newSkill,
                   newSocial, portfolioCalls>>

\* onChange of the title, description and specialization inputs
SetTitle(v) ==
    /\ editPortfolio
    /\ portfolioForm' = [portfolioForm EXCEPT !.title = v]
    /\ last' = Op("input")
    /\ Quiet
    /\ UNCHANGED <<schemaVars, scenario, contactVars, portfolio, dbPortfolio, newSkill, newSocial,
                   editPortfolio, portfolioCalls>>

SetDescription(v) ==
    /\ editPortfolio
    /\ portfolioForm' = [portfolioForm EXCEPT !.description = v]
    /\ last' = Op("input")
    /\ Quiet
    /\ UNCHANGED <<schemaVars, scenario, contactVars, portfolio, dbPortfolio, newSkill, newSocial,
                   editPortfolio, portfolioCalls>>

SetSpecialization(v) ==
    /\ editPortfolio
    /\ portfolioForm' = [portfolioForm EXCEPT !.specialization = v]
    /\ last' = Op("input")
    /\ Quiet
    /\ UNCHANGED <<schemaVars, scenario, contactVars, portfolio, dbPortfolio, newSkill, newSocial,
                   editPortfolio, portfolioCalls>>

\* onChange of the "Enter a skill" input
SetNewSkill(v) ==
    /\ editPortfolio
    /\ newSkill' = v
    /\ last' = Op("input")
    /\ Quiet
    /\ UNCHANGED <<schemaVars, scenario, contactVars, portfolio, dbPortfolio, portfolioForm, newSocial,
                   editPortfolio, portfolioCalls>>

\* onChange of the platform and URL inputs
SetNewSocialPlatform(v) ==
    /\ editPortfolio
    /\ newSocial' = [newSocial EXCEPT !.platform = v]
    /\ last' = Op("input")
    /\ Quiet
    /\ UNCHANGED <<schemaVars, scenario, contactVars, portfolio, dbPortfolio, portfolioForm, newSkill,
                   editPortfolio, portfolioCalls>>

SetNewSocialUrl(v) ==
    /\ editPortfolio
    /\ newSocial' = [newSocial EXCEPT !.url = v]
    /\ last' = Op("input")
    /\ Quiet
    /\ UNCHANGED <<schemaVars, scenario, contactVars, portfolio, dbPortfolio, portfolioForm, newSkill,
                   editPortfolio, portfolioCalls>>

\* mutant: the duplicate test looks for the input as typed, untrimmed
AddSkillAcceptsUntrimmed(input, skills) ==
    Truthy(Trim(input)) /\ ~Includes(skills, input)

\* the condition of addSkill's if
AddSkillAccepts(input, skills) ==
    Truthy(Trim(input)) /\ ~Includes(skills, Trim(input))

\* the "Add skill" button
AddSkill ==
    /\ editPortfolio
    /\ AddSkillAccepts(newSkill, portfolioForm.skills)
         => Len(portfolioForm.skills) < MaxSkills
    /\ IF AddSkillAccepts(newSkill, portfolioForm.skills)
       THEN /\ portfolioForm' =
                 [portfolioForm EXCEPT !.skills = Append(@, Trim(newSkill))]
            /\ newSkill' = EmptyStr
       ELSE UNCHANGED <<portfolioForm, newSkill>>
    /\ last' = Op("addSkill")
    /\ Quiet
    /\ UNCHANGED <<schemaVars, scenario, contactVars, portfolio, dbPortfolio, newSocial, editPortfolio,
                   portfolioCalls>>

\* the "Remove skill" button of one rendered skill
RemoveSkill(skill) ==
    /\ editPortfolio
    /\ portfolioForm' = [portfolioForm EXCEPT !.skills = FilterNe(@, skill)]
    /\ last' = OpStr("removeSkill", skill)
    /\ Quiet
    /\ UNCHANGED <<schemaVars, scenario, contactVars, portfolio, dbPortfolio, newSkill, newSocial,
                   editPortfolio, portfolioCalls>>

\* mutant: one of platform and URL is enough
AddSocialAcceptsEither(social) ==
    Truthy(Trim(social.platform)) \/ Truthy(Trim(social.url))

\* the condition of addSocialLink's if
AddSocialAccepts(social) ==
    Truthy(Trim(social.platform)) /\ Truthy(Trim(social.url))

\* the "Add social link" button
AddSocialLink ==
    /\ editPortfolio
    /\ AddSocialAccepts(newSocial) => Len(portfolioForm.social_links) < MaxLinks
    /\ IF AddSocialAccepts(newSocial)
       THEN /\ portfolioForm' =
                 [portfolioForm EXCEPT !.social_links =
                     Append(@, [platform |-> Trim(newSocial.platform),
                                url |-> Trim(newSocial.url)])]
            /\ newSocial' = EmptySocial
       ELSE UNCHANGED <<portfolioForm, newSocial>>
    /\ last' = Op("addSocialLink")
    /\ Quiet
    /\ UNCHANGED <<schemaVars, scenario, contactVars, portfolio, dbPortfolio, newSkill, editPortfolio,
                   portfolioCalls>>

\* removeSocialLink(index)
RemoveSocialLink(index) ==
    /\ editPortfolio
    /\ portfolioForm' =
         [portfolioForm EXCEPT !.social_links = FilterIdx(@, index, 0)]
    /\ last' = OpIdx("removeSocialLink", index)
    /\ Quiet
    /\ UNCHANGED <<schemaVars, scenario, contactVars, portfolio, dbPortfolio, newSkill, newSocial,
                   editPortfolio, portfolioCalls>>

\* savePortfolio's early return: if (!currentPortfolio?._id) return
PortfolioGuard == IsSome(currentPortfolio)

\* mutant: the validation also asks for a social link
PortfolioValidNeedsLinks(form) ==
    ~(\/ ~Truthy(Trim(form.title))
      \/ ~Truthy(Trim(form.description))
      \/ ~Truthy(Trim(form.specialization))
      \/ Len(form.skills) = 0
      \/ Len(form.social_links) = 0)

\* mutant: the validation forgets to trim
PortfolioValidNoTrim(form) ==
    ~(\/ ~Truthy(form.title)
      \/ ~Truthy(form.description)
      \/ ~Truthy(form.specialization)
      \/ Len(form.skills) = 0)

\* the validation of savePortfolio (true when the form may be saved)
PortfolioValid(form) ==
    ~(\/ ~Truthy(Trim(form.title))
      \/ ~Truthy(Trim(form.description))
      \/ ~Truthy(Trim(form.specialization))
      \/ Len(form.skills) = 0)

\* savePortfolio up to its await: the Save button of the portfolio section
SavePortfolio ==
    /\ editPortfolio
    /\ Len(portfolioCalls) < MaxCalls
    /\ IF ~PortfolioGuard
       THEN /\ alert' = "none"
            /\ UNCHANGED portfolioCalls
       ELSE IF ~PortfolioValid(portfolioForm)
       THEN /\ alert' = "Please complete all portfolio fields before saving."
            /\ UNCHANGED portfolioCalls
       ELSE /\ alert' = "none"
            /\ portfolioCalls' =
                 Append(portfolioCalls,
                        [portfolioId |-> Get(currentPortfolio)._id,
                         title |-> portfolioForm.title,
                         description |-> portfolioForm.description,
                         specialization |-> portfolioForm.specialization,
                         skills |-> portfolioForm.skills,
                         social_links |-> portfolioForm.social_links,
                         state |-> "pending"])
    /\ unhandled' = FALSE
    /\ last' = Op("savePortfolio")
    /\ UNCHANGED <<schemaVars, scenario, contactVars, portfolio, dbPortfolio, portfolioForm, newSkill,
                   newSocial, editPortfolio>>

\* api.portfolio.updatePortfolio commits on the server
ApplyPortfolio(i) ==
    /\ portfolioCalls[i].state = "pending"
    /\ Len(dbPortfolio) > 0
    /\ dbPortfolio[1]._id = portfolioCalls[i].portfolioId
    /\ dbPortfolio' =
         [dbPortfolio EXCEPT ![1] =
            [@ EXCEPT !.title = Some(portfolioCalls[i].title),
                      !.description = Some(portfolioCalls[i].description),
                      !.specialization = Some(portfolioCalls[i].specialization),
                      !.skills = Some(portfolioCalls[i].skills),
                      !.social_links = Some(portfolioCalls[i].social_links)]]
    /\ portfolioCalls' = [portfolioCalls EXCEPT ![i].state = "applied"]
    /\ last' = Op("applyPortfolio")
    /\ Quiet
    /\ UNCHANGED <<schemaVars, scenario, contactVars, portfolio, portfolioForm, newSkill, newSocial,
                   editPortfolio>>

\* the awaited updatePortfolio promise resolves: the rest of savePortfolio
ResolvePortfolio(i) ==
    /\ portfolioCalls[i].state = "applied"
    /\ portfolioCalls' = RemoveAt(portfolioCalls, i)
    /\ editPortfolio' = FALSE
    /\ alert' = "Portfolio saved"
    /\ unhandled' = FALSE
    /\ last' = Op("resolvePortfolio")
    /\ UNCHANGED <<schemaVars, scenario, contactVars, portfolio, dbPortfolio, portfolioForm, newSkill,
                   newSocial>>

\* a savePortfolio that catches the rejection: it reports it and closes the form
RejectPortfolioCaught(i) ==
    /\ portfolioCalls[i].state = "pending"
    /\ portfolioCalls' = RemoveAt(portfolioCalls, i)
    /\ editPortfolio' = FALSE
    /\ alert' = "Portfolio not saved"
    /\ unhandled' = FALSE
    /\ last' = Op("rejectPortfolio")
    /\ UNCHANGED <<schemaVars, scenario, contactVars, portfolio, dbPortfolio, portfolioForm,
                   newSkill, newSocial>>

\* the awaited updatePortfolio promise rejects: savePortfolio has no catch
RejectPortfolio(i) ==
    /\ portfolioCalls[i].state = "pending"
    /\ portfolioCalls' = RemoveAt(portfolioCalls, i)
    /\ alert' = "none"
    /\ unhandled' = TRUE
    /\ last' = Op("rejectPortfolio")
    /\ UNCHANGED <<schemaVars, scenario, contactVars, portfolio, dbPortfolio, portfolioForm, newSkill,
                   newSocial, editPortfolio>>

\* another writer changes or deletes the designer's portfolios row
ExternalPortfolio(r) ==
    /\ r # dbPortfolio
    /\ dbPortfolio' = r
    /\ last' = Op("externalPortfolio")
    /\ Quiet
    /\ UNCHANGED <<schemaVars, scenario, contactVars, portfolio, portfolioForm, newSkill, newSocial,
                   editPortfolio, portfolioCalls>>

\* ---------------------------------------------------------------- checks

\* mutant: social_links left out of the emptiness test
isPortfolioEmptyIgnoringLinks ==
    \/ ~IsSome(currentPortfolio)
    \/ /\ FalsyStr(Get(currentPortfolio).title)
       /\ FalsyStr(Get(currentPortfolio).description)
       /\ FalsyStr(Get(currentPortfolio).specialization)
       /\ (~IsSome(Get(currentPortfolio).skills)
             \/ Len(Get(Get(currentPortfolio).skills)) = 0)

isPortfolioEmpty ==
    \/ ~IsSome(currentPortfolio)
    \/ /\ FalsyStr(Get(currentPortfolio).title)
       /\ FalsyStr(Get(currentPortfolio).description)
       /\ FalsyStr(Get(currentPortfolio).specialization)
       /\ (~IsSome(Get(currentPortfolio).skills)
             \/ Len(Get(Get(currentPortfolio).skills)) = 0)
       /\ (~IsSome(Get(currentPortfolio).social_links)
             \/ Len(Get(Get(currentPortfolio).social_links)) = 0)

\* mutant: the sentinel compared without toLowerCase()
isContactInfoEmptyCaseSensitive ==
    \/ ~IsSome(designerProfile)
    \/ FalsyStr(Get(designerProfile).contact_number)
    \/ Trim(Get(Get(designerProfile).contact_number)) = NA
    \/ FalsyStr(Get(designerProfile).address)
    \/ Trim(Get(Get(designerProfile).address)) = NA

isContactInfoEmpty ==
    \/ ~IsSome(designerProfile)
    \/ FalsyStr(Get(designerProfile).contact_number)
    \/ ToLowerCase(Trim(Get(Get(designerProfile).contact_number))) = NA
    \/ FalsyStr(Get(designerProfile).address)
    \/ ToLowerCase(Trim(Get(Get(designerProfile).address))) = NA

\* ---------------------------------------------------------------- specifications

\* what the user types into the contact inputs
ContactInputs == {EmptyStr, <<" ", "n", "a", " ">>}

\* what another writer leaves in the designers table
ExternalDesigners ==
    {None, Some(Designer(None, None)), Some(Designer(Some(S("1")), Some(NA)))}

ContactStep(inputs, externals) ==
    \/ DeliverDesigner
    \/ EnterEditContact
    \/ CancelContact
    \/ \E v \in inputs : SetContactNumber(v)
    \/ \E v \in inputs : SetAddress(v)
    \/ SaveContactInfo
    \/ \E i \in 1..Len(designerCalls) : ApplyDesigner(i)
    \/ \E i \in 1..Len(designerCalls) : ResolveDesigner(i)
    \/ \E i \in 1..Len(designerCalls) : RejectDesigner(i)
    \/ \E r \in externals : ExternalDesigner(r)

InitContact ==
    /\ Mounted
    /\ scenario = "contact"
    /\ dbDesigner \in ExternalDesigners
    /\ dbPortfolio = <<>>

NextContact == ContactStep(ContactInputs, ExternalDesigners)

\* the contact section alone
SpecContact == InitContact /\ [][NextContact]_vars

\* what the user types into the title, description and specialization inputs
TitleInputs == {EmptyStr, Blank, S("T")}
TextInputs == {EmptyStr, S("D")}

AbsentPortfolio == PortfolioRec(None, None, None, None, None)
FullPortfolio ==
    PortfolioRec(Some(S("T")), Some(S("D")), Some(S("D")), Some(<<S("x")>>),
                 Some(<<Link(S("p"), S("u"))>>))

\* what another writer leaves in the portfolios table
ExternalPortfolios == {<<>>, <<AbsentPortfolio>>, <<FullPortfolio>>}

\* the portfolio section's edit session: text fields, the skill list, save
PortfolioStep(titles, texts, skills, externals) ==
    \/ DeliverPortfolio
    \/ EnterEditPortfolio
    \/ CancelPortfolio
    \/ \E v \in titles : SetTitle(v)
    \/ \E v \in texts : SetDescription(v)
    \/ \E v \in texts : SetSpecialization(v)
    \/ \E v \in skills : SetNewSkill(v)
    \/ AddSkill
    \/ \E skill \in Range(portfolioForm.skills) : RemoveSkill(skill)
    \/ SavePortfolio
    \/ \E i \in 1..Len(portfolioCalls) : ApplyPortfolio(i)
    \/ \E i \in 1..Len(portfolioCalls) : ResolvePortfolio(i)
    \/ \E i \in 1..Len(portfolioCalls) : RejectPortfolio(i)
    \/ \E r \in externals : ExternalPortfolio(r)

InitPortfolio ==
    /\ Mounted
    /\ scenario = "portfolio"
    /\ dbDesigner = Some(Designer(None, None))
    /\ dbPortfolio \in ExternalPortfolios

NextPortfolio ==
    \/ DeliverDesigner
    \/ PortfolioStep(TitleInputs, TextInputs, {S("x")}, ExternalPortfolios)

\* the portfolio section's save path, for a designer whose row is there
SpecPortfolio == InitPortfolio /\ [][NextPortfolio]_vars

\* what the user types into the skill input
SkillInputs == {Blank, <<" ", "x", " ">>, S("X")}

\* what the user types into the platform and URL inputs
PlatformInputs == {Blank, S("p"), <<" ", "q">>}
UrlInputs == {<<"u", " ">>}

LinkP == Link(S("p"), S("u"))
LinkQ == Link(S("q"), S("u"))

\* stored portfolios whose lists the edit session starts from
ListedPortfolios ==
    {<<PortfolioRec(None, None, None, Some(<<S("x"), S("y")>>),
                    Some(<<LinkP, LinkQ, LinkP>>))>>,
     <<PortfolioRec(None, None, None, Some(<<S("y")>>), None)>>}

\* the portfolio section's list editing: skills and social links
EditingStep(skills, platforms, urls, externals) ==
    \/ DeliverPortfolio
    \/ EnterEditPortfolio
    \/ CancelPortfolio
    \/ \E v \in skills : SetNewSkill(v)
    \/ \E v \in platforms : SetNewSocialPlatform(v)
    \/ \E v \in urls : SetNewSocialUrl(v)
    \/ AddSkill
    \/ \E skill \in Range(portfolioForm.skills) : RemoveSkill(skill)
    \/ AddSocialLink
    \/ \E index \in -1..Len(portfolioForm.social_links) : RemoveSocialLink(index)
    \/ \E r \in externals : ExternalPortfolio(r)

InitEditing ==
    /\ Mounted
    /\ scenario = "editing"
    /\ dbDesigner = Some(Designer(None, None))
    /\ dbPortfolio \in ListedPortfolios

NextEditing ==
    \/ DeliverDesigner
    \/ EditingStep(SkillInputs, PlatformInputs, UrlInputs, ListedPortfolios)

\* the skill and social-link handlers, from empty and from stored lists
SpecEditing == InitEditing /\ [][NextEditing]_vars

\* what a stored optional text, skills list and social_links list may be
StoredTexts == {None, Some(EmptyStr), Some(S("T"))}
StoredSkills == {None, Some(<<>>), Some(<<S("x")>>)}
StoredLinks == {None, Some(<<>>), Some(<<LinkP>>)}

StoredPortfolios ==
    {<<>>} \cup
    {<<PortfolioRec(t, d, sp, sk, sl)>> :
        t \in StoredTexts, d \in StoredTexts, sp \in StoredTexts,
        sk \in StoredSkills, sl \in StoredLinks}

\* what a stored contact_number and address may be
StoredContacts ==
    {None, Some(EmptyStr), Some(S("1")), Some(NA), Some(<<"N", "A">>),
     Some(<<" ", "n", "a", " ">>), Some(<<"N", "a">>), Some(<<"n", "a", "x">>)}

StoredDesigners ==
    {None} \cup {Some(Designer(c, a)) : c \in StoredContacts, a \in StoredContacts}

InitRecords ==
    /\ Mounted
    /\ scenario = "records"
    /\ \/ dbDesigner \in StoredDesigners /\ dbPortfolio = <<>>
       \/ dbDesigner = Some(Designer(None, None)) /\ dbPortfolio \in StoredPortfolios

NextRecords ==
    \/ DeliverDesigner
    \/ DeliverPortfolio
    \/ EnterEditContact
    \/ EnterEditPortfolio
    \/ \E v \in {S("1")} : SetContactNumber(v)
    \/ \E v \in {S("T")} : SetTitle(v)

\* the page opened on each kind of stored record: the two emptiness checks
SpecRecords == InitRecords /\ [][NextRecords]_vars

\* values no validator of the schema declares for the field they are sent in
Outsiders == {"long_sleeves", "Jersey", "approved"}

\* the documents a session tries to insert into table t
Documents(t) ==
    {doc \in [DOMAIN Schema[t] -> UNION {Schema[t][f] : f \in DOMAIN Schema[t]} \cup Outsiders] :
        \A f \in DOMAIN Schema[t] : doc[f] \in Schema[t][f] \cup Outsiders}

InitSchema ==
    /\ Mounted
    /\ scenario = "schema"
    /\ dbDesigner = None
    /\ dbPortfolio = <<>>

NextSchema ==
    \E t \in Tables : \E doc \in Documents(t) :
        /\ Cardinality(StoredRows) < MaxRows
        /\ Insert(t, doc)

\* documents arriving at the tables of the schema
SpecSchema == InitSchema /\ [][NextSchema]_vars

\* the whole page: a session on the contact section, on the portfolio section's
\* save path, or on its skill and link lists
Init == InitContact \/ InitPortfolio \/ InitEditing

Next ==
    \/ scenario = "contact" /\ NextContact
    \/ scenario = "portfolio" /\ NextPortfolio
    \/ scenario = "editing" /\ NextEditing

Spec == Init /\ [][Next]_vars

\* ---------------------------------------------------------------- properties

\* how many times x is in the sequence s
Count(s, x) == Cardinality({i \in 1..Len(s) : s[i] = x})

\* a string with nothing but whitespace in it
IsBlank(s) == \A i \in 1..Len(s) : s[i] = " "

\* title, description and specialization not blank, at least one skill
FormComplete(form) ==
    /\ ~IsBlank(form.title)
    /\ ~IsBlank(form.description)
    /\ ~IsBlank(form.specialization)
    /\ form.skills # <<>>

\* the step issues exactly one updatePortfolio call, for the fetched row, carrying
\* the five fields of the form as they are
IssuesPortfolioUpdate ==
    /\ Len(portfolioCalls') = Len(portfolioCalls) + 1
    /\ SubSeq(portfolioCalls', 1, Len(portfolioCalls)) = portfolioCalls
    /\ portfolioCalls'[Len(portfolioCalls')] =
         [portfolioId |-> portfolio[1]._id,
          title |-> portfolioForm.title,
          description |-> portfolioForm.description,
          specialization |-> portfolioForm.specialization,
          skills |-> portfolioForm.skills,
          social_links |-> portfolioForm.social_links,
          state |-> "pending"]

\* C1 (as amended): whenever savePortfolio is invoked while a portfolio row has
\* been fetched and the form has a non-blank title, description and
\* specialization and a non-empty skills list, the update mutation is issued
\* with exactly the five form fields and no warning; once it completes the
\* section leaves edit mode and the confirmation is shown.  While no row has
\* been fetched savePortfolio returns at once: no mutation, no message.
C1_SaveIssuesAndCompletes ==
    [][/\ (last'.op = "savePortfolio" /\ portfolio # <<>> /\ FormComplete(portfolioForm))
            => (IssuesPortfolioUpdate /\ alert' = "none")
       /\ (last'.op = "savePortfolio" /\ portfolio = <<>>)
            => (portfolioCalls' = portfolioCalls /\ alert' = "none"
                /\ editPortfolio' = editPortfolio)
       /\ (last'.op = "resolvePortfolio")
            => (~editPortfolio' /\ alert' = "Portfolio saved"
                /\ Len(portfolioCalls') = Len(portfolioCalls) - 1)
      ]_vars

\* C1 witness: a save of a complete form has been issued, applied and resolved
C1_Witness ==
    /\ last.op = "resolvePortfolio"
    /\ alert = "Portfolio saved"
    /\ ~editPortfolio
    /\ dbPortfolio # <<>>
    /\ dbPortfolio[1].title = Some(S("T"))
    /\ dbPortfolio[1].social_links = Some(<<>>)

\* C1 as stated: a complete form is saved in every state, fetched row or not
C1_Original ==
    [][(last'.op = "savePortfolio" /\ FormComplete(portfolioForm))
          => Len(portfolioCalls') = Len(portfolioCalls) + 1]_vars

\* C2 (as amended): whenever savePortfolio is invoked while a portfolio row has
\* been fetched and title, description or specialization is blank after
\* trimming or the skills list is empty, no mutation is issued, the warning is
\* shown, the section stays in edit mode and the form is unchanged.
C2_InvalidSaveWarns ==
    [][(last'.op = "savePortfolio" /\ portfolio # <<>> /\ ~FormComplete(portfolioForm))
          => /\ portfolioCalls' = portfolioCalls
             /\ alert' = "Please complete all portfolio fields before saving."
             /\ editPortfolio /\ editPortfolio'
             /\ portfolioForm' = portfolioForm
             /\ dbPortfolio' = dbPortfolio
      ]_vars

\* C2 witness: the warning shown for a fetched row whose form has a blank title
C2_Witness ==
    /\ last.op = "savePortfolio"
    /\ alert = "Please complete all portfolio fields before saving."
    /\ portfolio # <<>>
    /\ portfolioForm.title = Blank
    /\ portfolioForm.skills # <<>>
    /\ editPortfolio

\* C2 as stated: an incomplete form draws the warning in every state
C2_Original ==
    [][(last'.op = "savePortfolio" /\ ~FormComplete(portfolioForm))
          => alert' = "Please complete all portfolio fields before saving."]_vars

\* the step issues exactly one updateDesigner call carrying the form's current
\* contact_number and address
IssuesDesignerUpdate ==
    /\ Len(designerCalls') = Len(designerCalls) + 1
    /\ SubSeq(designerCalls', 1, Len(designerCalls)) = designerCalls
    /\ designerCalls'[Len(designerCalls')] =
         [designerId |-> designerProfile[1]._id,
          contact_number |-> designerForm.contact_number,
          address |-> designerForm.address,
          state |-> "pending"]

\* C3 (as amended): whenever saveContactInfo is invoked while a designer
\* profile has been fetched it issues the updateDesigner mutation carrying the
\* form's current contact_number and address, whatever they are (no
\* validation); after it completes the contact section leaves edit mode and
\* the confirmation is shown.  While no profile has been fetched it returns at
\* once without issuing anything.
C3_SaveContactSubmits ==
    [][/\ (last'.op = "saveContactInfo" /\ designerProfile # <<>>)
            => (IssuesDesignerUpdate /\ alert' = "none")
       /\ (last'.op = "saveContactInfo" /\ designerProfile = <<>>)
            => (designerCalls' = designerCalls /\ alert' = "none"
                /\ editContact' = editContact)
       /\ (last'.op = "resolveDesigner")
            => (~editContact' /\ alert' = "Contact info updated"
                /\ Len(designerCalls') = Len(designerCalls) - 1)
      ]_vars

\* C3 witness: an empty contact form has been submitted, stored and confirmed
C3_Witness ==
    /\ last.op = "resolveDesigner"
    /\ alert = "Contact info updated"
    /\ ~editContact
    /\ dbDesigner # <<>>
    /\ dbDesigner[1].contact_number = Some(EmptyStr)
    /\ dbDesigner[1].address = Some(<<" ", "n", "a", " ">>)

\* C3 as stated: every invocation issues the mutation
C3_Original ==
    [][(last'.op = "saveContactInfo")
          => Len(designerCalls') = Len(designerCalls) + 1]_vars

\* an optional field as the form shows it: absent as the given default
FieldOr(o, d) == IF o = <<>> THEN d ELSE o[1]

\* C4: every time a section enters edit mode its form equals the last-fetched
\* record of that section, absent fields as empty string / empty list (so edits
\* discarded with Cancel are not shown again).
C4_Original ==
    [][/\ (last'.op = "editPortfolio" /\ portfolio # <<>>)
            => portfolioForm' =
                 [title |-> FieldOr(portfolio[1].title, EmptyStr),
                  description |-> FieldOr(portfolio[1].description, EmptyStr),
                  specialization |-> FieldOr(portfolio[1].specialization, EmptyStr),
                  skills |-> FieldOr(portfolio[1].skills, <<>>),
                  social_links |-> FieldOr(portfolio[1].social_links, <<>>)]
       /\ (last'.op = "editContact" /\ designerProfile # <<>>)
            => designerForm' =
                 [contact_number |-> FieldOr(designerProfile[1].contact_number, EmptyStr),
                  address |-> FieldOr(designerProfile[1].address, EmptyStr)]
      ]_vars

\* the handlers that only edit the form or toggle a section
FormOps ==
    {"input", "addSkill", "removeSkill", "addSocialLink", "removeSocialLink",
     "editContact", "editPortfolio", "cancelContact", "cancelPortfolio"}

SaveOps == {"saveContactInfo", "savePortfolio"}

\* C5: no form action other than the two saves issues a mutation or changes the
\* stored designer / portfolio record; a save only issues its call; the stored
\* record changes only when the server applies a call a save has issued (or
\* another writer changes the row).
C5_EditsStayLocal ==
    [][/\ last'.op \in FormOps
            => /\ dbDesigner' = dbDesigner /\ dbPortfolio' = dbPortfolio
               /\ designerCalls' = designerCalls /\ portfolioCalls' = portfolioCalls
       /\ last'.op \in SaveOps
            => dbDesigner' = dbDesigner /\ dbPortfolio' = dbPortfolio
       /\ last'.op \notin SaveOps
            => /\ Len(designerCalls') <= Len(designerCalls)
               /\ Len(portfolioCalls') <= Len(portfolioCalls)
       /\ dbDesigner' # dbDesigner
            => \/ last'.op = "externalDesigner"
               \/ /\ last'.op = "applyDesigner"
                  /\ \E i \in 1..Len(designerCalls) :
                       /\ designerCalls[i].state = "pending"
                       /\ dbDesigner'[1].contact_number = Some(designerCalls[i].contact_number)
                       /\ dbDesigner'[1].address = Some(designerCalls[i].address)
       /\ dbPortfolio' # dbPortfolio
            => \/ last'.op = "externalPortfolio"
               \/ /\ last'.op = "applyPortfolio"
                  /\ \E i \in 1..Len(portfolioCalls) :
                       /\ portfolioCalls[i].state = "pending"
                       /\ dbPortfolio'[1].title = Some(portfolioCalls[i].title)
                       /\ dbPortfolio'[1].skills = Some(portfolioCalls[i].skills)
      ]_vars

\* C5 witness: the address typed into the form differs from the stored one,
\* which is as it was, and nothing is in flight
C5_Witness ==
    /\ last.op = "input"
    /\ editContact
    /\ designerProfile # <<>>
    /\ dbDesigner = designerProfile
    /\ designerForm.address = <<" ", "n", "a", " ">>
    /\ dbDesigner[1].address = Some(NA)
    /\ designerCalls = <<>>

\* t is s without its leading and trailing whitespace
IsTrimOf(t, s) ==
    /\ t = <<>> \/ (t[1] # " " /\ t[Len(t)] # " ")
    /\ \E i \in 0..Len(s) :
         /\ i + Len(t) <= Len(s)
         /\ SubSeq(s, i + 1, i + Len(t)) = t
         /\ \A k \in 1..i : s[k] = " "
         /\ \A k \in (i + Len(t) + 1)..Len(s) : s[k] = " "

Subs(s) == {SubSeq(s, i, j) : i \in 1..(Len(s) + 1), j \in 0..Len(s)}

C7_AddSocialLink ==
    [][last'.op = "addSocialLink"
          => IF IsBlank(newSocial.platform) \/ IsBlank(newSocial.url)
             THEN portfolioForm' = portfolioForm /\ newSocial' = newSocial
             ELSE \E p \in Subs(newSocial.platform), u \in Subs(newSocial.url) :
                    /\ IsTrimOf(p, newSocial.platform)
                    /\ IsTrimOf(u, newSocial.url)
                    /\ portfolioForm'.social_links =
                         portfolioForm.social_links \o <<[platform |-> p, url |-> u]>>
                    /\ portfolioForm' =
                         [portfolioForm EXCEPT !.social_links = portfolioForm'.social_links]
                    /\ newSocial' = [platform |-> <<>>, url |-> <<>>]
      ]_vars

\* C7 witness: the pair (p, u) added a second time, typed with whitespace
C7_Witness ==
    /\ last.op = "addSocialLink"
    /\ portfolioForm.social_links = <<LinkP, LinkP>>
    /\ newSocial = EmptySocial

\* C8: removeSocialLink(i) with 0 <= i < length deletes position i and nothing
\* else (one element fewer, the others in their order, equal-valued links at
\* other positions kept); with i outside that range the list is unchanged.  No
\* other portfolio form field changes.
C8_RemoveSocialLink ==
    [][last'.op = "removeSocialLink"
          => LET old == portfolioForm.social_links
                 new == portfolioForm'.social_links
                 i == last'.index
             IN /\ IF 0 <= i /\ i < Len(old)
                   THEN /\ Len(new) = Len(old) - 1
                        /\ \A k \in 1..Len(new) :
                             new[k] = IF k <= i THEN old[k] ELSE old[k + 1]
                   ELSE new = old
                /\ portfolioForm' = [portfolioForm EXCEPT !.social_links = new]
      ]_vars

\* C8 witness: position 0 of (p, q, p) removed, the equal link at the end kept
C8_Witness ==
    /\ last.op = "removeSocialLink"
    /\ last.index = 0
    /\ portfolioForm.social_links = <<LinkQ, LinkP>>

\* a stored optional string or list that is there and not empty
Populated(o) == o # <<>> /\ o[1] # <<>>

\* C9: isPortfolioEmpty is true iff there is no current portfolio record or
\* none of title, description, specialization, skills and social_links is
\* populated; it is a function of the fetched record alone.
C9_PortfolioEmpty ==
    isPortfolioEmpty <=>
        \/ portfolio = <<>>
        \/ /\ ~Populated(portfolio[1].title)
           /\ ~Populated(portfolio[1].description)
           /\ ~Populated(portfolio[1].specialization)
           /\ ~Populated(portfolio[1].skills)
           /\ ~Populated(portfolio[1].social_links)

\* C9 witness: only social_links is populated and the form has been edited
C9_Witness ==
    /\ ~isPortfolioEmpty
    /\ portfolio # <<>>
    /\ portfolio[1].title = None
    /\ portfolio[1].description = Some(EmptyStr)
    /\ portfolio[1].specialization = None
    /\ portfolio[1].skills = Some(<<>>)
    /\ portfolio[1].social_links = Some(<<LinkP>>)
    /\ portfolioForm.title = S("T")

\* the "na" sentinel: "na" in any letter case, whitespace around it
IsNaSentinel(o) ==
    /\ o # <<>>
    /\ \E t \in {<<"n", "a">>, <<"N", "A">>, <<"N", "a">>, <<"n", "A">>} : IsTrimOf(t, o[1])

\* C10 (as amended): isContactInfoEmpty is true iff the designer profile is
\* absent, or contact_number or address is absent or the empty string, or one
\* of them is the "na" sentinel (any case, trimmed); otherwise it is false.
C10_ContactInfoEmpty ==
    isContactInfoEmpty <=>
        \/ designerProfile = <<>>
        \/ ~Populated(designerProfile[1].contact_number)
        \/ ~Populated(designerProfile[1].address)
        \/ IsNaSentinel(designerProfile[1].contact_number)
        \/ IsNaSentinel(designerProfile[1].address)

\* C10 witness: a profile whose only empty-making field is the address "Na"
C10_Witness ==
    /\ isContactInfoEmpty
    /\ designerProfile # <<>>
    /\ designerProfile[1].contact_number = Some(S("1"))
    /\ designerProfile[1].address = Some(<<"N", "a">>)

\* C10 as stated: with both fields present and neither the sentinel, false
C10_Original ==
    isContactInfoEmpty <=>
        \/ designerProfile = <<>>
        \/ designerProfile[1].contact_number = <<>>
        \/ designerProfile[1].address = <<>>
        \/ IsNaSentinel(designerProfile[1].contact_number)
        \/ IsNaSentinel(designerProfile[1].address)

\* the enumerations of the data model, the shirt size's type being shirtTypes
Listed(shirtTypes) ==
    [users |-> [role |-> {"client", "designer", "admin"}],
     shirt_sizes |-> [type |-> shirtTypes, category |-> {"kids", "adult"}],
     design_requests |-> [status |-> {"pending", "approved", "rejected"}],
     design |-> [status |-> {"in_progress", "finished", "billed", "approved"}],
     fabric_canvases |->
        [category |-> {"front", "back", "left_sleeve", "right_sleeve", "collar", "other"}]]

InListed(listed, t, doc) == \A f \in DOMAIN listed[t] : doc[f] \in listed[t][f]

\* an insert is accepted exactly when each enumerated field holds a listed
\* literal, an accepted document is stored, and nothing else is ever stored
ClosedOver(listed) ==
    /\ write.table \in DOMAIN listed =>
          /\ write.accepted <=> InListed(listed, write.table, write.doc)
          /\ write.accepted => write.doc \in rows[write.table]
    /\ \A t \in DOMAIN listed : \A doc \in rows[t] : InListed(listed, t, doc)

\* C11 (as amended): the persisted enumerations are closed sets: a document is
\* accepted by the schema iff each enumerated field holds one of the listed
\* literals, where the literals of a shirt size's type are jersey, polo, tshirt
\* and "long sleeves" (written with a space); every other value is rejected.
C11_ClosedEnumerations == ClosedOver(Listed({"jersey", "polo", "tshirt", "long sleeves"}))

\* C11 witness: a shirt size of type "long sleeves" has been accepted and stored
C11_Witness ==
    /\ last.op = "insert"
    /\ write.table = "shirt_sizes"
    /\ write.accepted
    /\ write.doc.type = "long sleeves"
    /\ write.doc \in rows.shirt_sizes

\* C11 as stated: the accepted shirt size types are jersey, polo, tshirt and
\* long_sleeves
C11_Original == ClosedOver(Listed({"jersey", "polo", "tshirt", "long_sleeves"}))

\* C12: a rejected updateDesigner or updatePortfolio call is not handled: the
\* step in which the awaited call rejects leaves the section's edit flag as it
\* is (an open section stays open), shows no alert, changes no form state and
\* no stored row, issues no new call (the rejected one is simply gone), and
\* ends in an unhandled rejection.
C12_RejectionUnhandled ==
    [][/\ last'.op = "rejectDesigner" =>
            /\ editContact' = editContact
            /\ alert' = "none"
            /\ unhandled'
            /\ designerForm' = designerForm
            /\ Len(designerCalls') = Len(designerCalls) - 1
            /\ \A c \in Range(designerCalls') : c \in Range(designerCalls)
            /\ UNCHANGED <<dbDesigner, portfolioVars>>
       /\ last'.op = "rejectPortfolio" =>
            /\ editPortfolio' = editPortfolio
            /\ alert' = "none"
            /\ unhandled'
            /\ UNCHANGED <<portfolioForm, newSkill, newSocial>>
            /\ Len(portfolioCalls') = Len(portfolioCalls) - 1
            /\ \A c \in Range(portfolioCalls') : c \in Range(portfolioCalls)
            /\ UNCHANGED <<dbPortfolio, contactVars>>]_vars

\* C12 witness: the updatePortfolio call of a save has rejected: the section is
\* still open on the edited title, which the stored row does not have, no call
\* is in flight and the rejection is unhandled
C12_Witness ==
    /\ last.op = "rejectPortfolio"
    /\ unhandled
    /\ alert = "none"
    /\ editPortfolio
    /\ portfolioCalls = <<>>
    /\ dbPortfolio # <<>>
    /\ FormComplete(portfolioForm)
    /\ dbPortfolio[1].title # Some(portfolioForm.title)

\* C13: a delivery of a changed designer or portfolio record that is there
\* resets the section's form to the record's fields (an absent field as the
\* empty string / the empty list) whether or not the section is in edit mode,
\* so the unsaved edits of an open session are overwritten; a delivery of an
\* absent record leaves the form as it is; no delivery changes editContact or
\* editPortfolio.
C13_DeliveryResetsForm ==
    [][/\ last'.op = "deliverDesigner" =>
            /\ designerProfile' # designerProfile
            /\ designerProfile' # <<>> =>
                  /\ designerForm'.contact_number =
                        FieldOr(designerProfile'[1].contact_number, EmptyStr)
                  /\ designerForm'.address =
                        FieldOr(designerProfile'[1].address, EmptyStr)
            /\ designerProfile' = <<>> => designerForm' = designerForm
            /\ UNCHANGED <<editContact, editPortfolio, portfolioForm>>
       /\ last'.op = "deliverPortfolio" =>
            /\ portfolio' # portfolio
            /\ portfolio' # <<>> =>
                  /\ portfolioForm'.title = FieldOr(portfolio'[1].title, EmptyStr)
                  /\ portfolioForm'.description =
                        FieldOr(portfolio'[1].description, EmptyStr)
                  /\ portfolioForm'.specialization =
                        FieldOr(portfolio'[1].specialization, EmptyStr)
                  /\ portfolioForm'.skills = FieldOr(portfolio'[1].skills, <<>>)
                  /\ portfolioForm'.social_links =
                        FieldOr(portfolio'[1].social_links, <<>>)
            /\ portfolio' = <<>> => portfolioForm' = portfolioForm
            /\ UNCHANGED <<editContact, editPortfolio, designerForm>>]_vars

\* C13 witness: while the portfolio section was open with a save in flight,
\* the row as another writer left it was delivered and replaced the form the
\* save had sent
C13_Witness ==
    /\ last.op = "deliverPortfolio"
    /\ editPortfolio
    /\ portfolio # <<>>
    /\ portfolioForm.title = FieldOr(portfolio[1].title, EmptyStr)
    /\ portfolioCalls # <<>>
    /\ portfolioCalls[1].state = "pending"
    /\ portfolioCalls[1].title # portfolioForm.title

====
